---------------------------- MODULE Spec2Model ----------------------------
(***************************************************************************)
(* Model of the four-stage instruction pipeline simulator (CPipelineSim,   *)
(* PipelineSim.cpp / PipelineSim.h), of the dependency graph               *)
(* (CDependencyGraph, DependencyGraph.cpp / DependencyGraph.h) and of the  *)
(* driver that feeds one into the other (Pipeline_Main.cpp).               *)
(*                                                                         *)
(* Characters (TCHAR) are their character codes.  A std::list is a         *)
(* sequence whose element 1 is front() and whose last element is back().   *)
(***************************************************************************)
EXTENDS Integers, Sequences, FiniteSets, TLC

(***************************************************************************)
(* Bounds of the model.                                                    *)
(***************************************************************************)
\* most instruction records a client inserts into a bare simulator
MaxInstr == 5

\* the loader names instructions with the first NumLetters letters 'a', 'b', ...
NumLetters == 6

\* a graph client passes the edge weights 1..MaxWeight
MaxWeight == 2

\* records inserted by a client that inserts between its calls of
\* ProcessNextCycle
MaxLate == 3

\* calls of ProcessNextCycle explored: long enough for the longest run
\* (2k+3 calls for k records) and for some polling after it
MaxCycle == 2 * (IF MaxInstr > NumLetters THEN MaxInstr ELSE NumLetters) + 6

(***************************************************************************)
(* PipelineSim.h: stages, instruction identities, records.                 *)
(***************************************************************************)
PS_INVALID == 0
PS_IF == 1
PS_ID == 2
PS_EX == 3
PS_WB == 4
PS_COMPLETED == 5

NOOP_INSTRUCTION == 45

\* 'a', the first letter of the instruction alphabet
CHAR_a == 97

CONCURRENT_INSTRUCTION_LIMIT == 4

\* CInstructionData(instruction, psState, bDataDependent)
CInstructionData(instruction, psState, bDataDependent) ==
    [m_Instruction |-> instruction, m_psState |-> psState,
     m_bDataDependent |-> bDataDependent]

\* CNoopInstruction(psState); CNoopInstruction() is CNoopInstruction(PS_INVALID)
CNoopInstruction(psState) ==
    CInstructionData(NOOP_INSTRUCTION, psState, FALSE)

IsNOOP(r) == r.m_Instruction = NOOP_INSTRUCTION

(***************************************************************************)
(* State.                                                                  *)
(***************************************************************************)
VARIABLES
    m_dwCycle,                 \* CPipelineSim::m_dwCycle
    m_dwStallCtr,              \* CPipelineSim::m_dwStallCtr
    m_dwCompletedCtr,          \* CPipelineSim::m_dwCompletedCtr
    m_lstInstructionPipeline,  \* in-flight list, front first
    m_queInstructions,         \* pending queue, front first
    bReturn,                   \* what the last ProcessNextCycle call returned
    bStalled,                  \* bStalled at the end of the last call
    inserted,                  \* the records given to InsertInstruction, in order
    firstFalse,                \* m_dwCycle of the first call that returned false, 0 if none
    sizeReturn,                \* what the last InsertInstruction call returned, 0 if none
    m_nMaxNodes,               \* CDependencyGraph::m_nMaxNodes
    m_nNumNodes,               \* CDependencyGraph::m_nNumNodes
    m_vNodes,                  \* CDependencyGraph::m_vNodes, slot index -> CGraphNode
    pc,                        \* where the program is: "nodes", "edges" (LoadData),
                               \* "fed", "loop", "done" (ExecutePipelineSimulation)
    tcout,                     \* the snapshots written by OutputCurrentInstructionCycle
    dagCall,                   \* a graph client's last call, with what it returned
    nodeLog,                   \* the identities a client's AddNode calls returned true for
    edgeLog                    \* the <<from, to, weight>> a client's AddEdge calls returned true for

simVars == <<m_dwCycle, m_dwStallCtr, m_dwCompletedCtr,
             m_lstInstructionPipeline, m_queInstructions,
             bReturn, bStalled, inserted, firstFalse, sizeReturn>>

dagVars == <<m_nMaxNodes, m_nNumNodes, m_vNodes>>

clientVars == <<dagCall, nodeLog, edgeLog>>

vars == <<simVars, dagVars, pc, tcout, clientVars>>

(***************************************************************************)
(* CPipelineSim::ProcessNextCycle, PipelineSim.cpp.                        *)
(***************************************************************************)
m_dwMaxPipelineDepth == CONCURRENT_INSTRUCTION_LIMIT

\* std::list::insert(pos, x): x goes before the element at index pos
\* (pos = Len + 1 is end())
ListInsert(lst, pos, x) ==
    SubSeq(lst, 1, pos - 1) \o <<x>> \o SubSeq(lst, pos, Len(lst))

\* Admission that takes the record at the back of the pending queue
Admission_TakesLast(lst, que) ==
    IF Len(lst) <= m_dwMaxPipelineDepth
    THEN IF Len(que) # 0
         THEN [lst |-> <<que[Len(que)]>> \o lst,
               que |-> SubSeq(que, 1, Len(que) - 1), bReturn |-> TRUE]
         ELSE [lst |-> <<CNoopInstruction(PS_INVALID)>> \o lst, que |-> que,
               bReturn |-> FALSE]
    ELSE [lst |-> lst, que |-> que, bReturn |-> FALSE]

\* Admission that pushes whatever the length of the in-flight list
Admission_NoGate(lst, que) ==
    IF Len(que) # 0
    THEN [lst |-> <<Head(que)>> \o lst, que |-> Tail(que), bReturn |-> TRUE]
    ELSE [lst |-> <<CNoopInstruction(PS_INVALID)>> \o lst, que |-> que,
          bReturn |-> FALSE]

\* Admission with a freshly pushed bubble reported as work
Admission_BubbleIsWork(lst, que) ==
    IF Len(lst) <= m_dwMaxPipelineDepth
    THEN IF Len(que) # 0
         THEN [lst |-> <<Head(que)>> \o lst, que |-> Tail(que), bReturn |-> TRUE]
         ELSE [lst |-> <<CNoopInstruction(PS_INVALID)>> \o lst, que |-> que,
               bReturn |-> TRUE]
    ELSE [lst |-> lst, que |-> que, bReturn |-> FALSE]

\* Admission that pushes at the back of the in-flight list
Admission_PushBack(lst, que) ==
    IF Len(lst) <= m_dwMaxPipelineDepth
    THEN IF Len(que) # 0
         THEN [lst |-> lst \o <<Head(que)>>, que |-> Tail(que), bReturn |-> TRUE]
         ELSE [lst |-> lst \o <<CNoopInstruction(PS_INVALID)>>, que |-> que,
               bReturn |-> FALSE]
    ELSE [lst |-> lst, que |-> que, bReturn |-> FALSE]

\* the admission block: the list after it, the queue after it, bReturn after it
Admission(lst, que) ==
    IF Len(lst) <= m_dwMaxPipelineDepth
    THEN IF Len(que) # 0
         THEN [lst |-> <<Head(que)>> \o lst, que |-> Tail(que), bReturn |-> TRUE]
         ELSE [lst |-> <<CNoopInstruction(PS_INVALID)>> \o lst, que |-> que,
               bReturn |-> FALSE]
    ELSE [lst |-> lst, que |-> que, bReturn |-> FALSE]

(* The loop state s: the list, the reverse iterator itr as the index of    *)
(* itr.base() (Len + 1 is end(), 1 is begin(), so itr = rend() iff base =  *)
(* 1), and the locals and counters the loop writes.                        *)
\* *itr of a reverse iterator: the element before itr.base()
Deref(s) == s.lst[s.base - 1]

\* itr->SetState(st); if (itr->IsNOOP() == false) bReturn = true;
Bump(s, st) ==
    [s EXCEPT !.lst[s.base - 1].m_psState = st,
              !.bReturn = @ \/ ~IsNOOP(Deref(s))]

\* case PS_ID without the dependency test
CaseID_NoStall(s) == Bump(s, PS_EX)

\* case PS_ID that leaves the data-dependence flag set when it stalls
CaseID_KeepsFlag(s) ==
    IF Deref(s).m_bDataDependent
    THEN LET t == [s EXCEPT !.lst = ListInsert(s.lst, s.base, CNoopInstruction(PS_EX)),
                            !.base = s.base + 1,
                            !.bStalled = TRUE,
                            !.m_dwStallCtr = @ + 1]
         IN  [t EXCEPT !.bReturn = @ \/ ~IsNOOP(Deref(t))]
    ELSE Bump(s, PS_EX)

\* case PS_ID with the bubble inserted before the stalled record, on its
\* front side
CaseID_BubbleInFront(s) ==
    IF Deref(s).m_bDataDependent
    THEN LET cleared == [s.lst EXCEPT ![s.base - 1].m_bDataDependent = FALSE]
         IN  [s EXCEPT !.lst = ListInsert(cleared, s.base - 1, CNoopInstruction(PS_EX)),
                       !.base = s.base + 1,
                       !.bStalled = TRUE,
                       !.m_dwStallCtr = @ + 1,
                       !.bReturn = TRUE]
    ELSE Bump(s, PS_EX)

\* case PS_ID
CaseID(s) ==
    IF Deref(s).m_bDataDependent
    THEN LET cleared == [s.lst EXCEPT ![s.base - 1].m_bDataDependent = FALSE]
             \* insert(itr.base(), NOOP): the bubble lands before base(), which
             \* moves one index up; itr now dereferences to the bubble
             t == [s EXCEPT !.lst = ListInsert(cleared, s.base, CNoopInstruction(PS_EX)),
                            !.base = s.base + 1,
                            !.bStalled = TRUE,
                            !.m_dwStallCtr = @ + 1]
         IN  [t EXCEPT !.bReturn = @ \/ ~IsNOOP(Deref(t))]
    ELSE Bump(s, PS_EX)

\* case PS_WB that reports the move to Completed as work, like the other cases
CaseWB_SignalsWork(s) ==
    [s EXCEPT !.lst[s.base - 1].m_psState = PS_COMPLETED,
              !.m_dwCompletedCtr = IF IsNOOP(Deref(s)) THEN @ ELSE @ + 1,
              !.bReturn = @ \/ ~IsNOOP(Deref(s))]

\* case PS_WB that counts a bubble reaching Completed like an instruction
CaseWB_CountsBubbles(s) ==
    [s EXCEPT !.lst[s.base - 1].m_psState = PS_COMPLETED,
              !.m_dwCompletedCtr = @ + 1]

\* case PS_WB
CaseWB(s) ==
    [s EXCEPT !.lst[s.base - 1].m_psState = PS_COMPLETED,
              !.m_dwCompletedCtr = IF IsNOOP(Deref(s)) THEN @ ELSE @ + 1]

\* the switch with case PS_IF setting PS_EX: Decode is skipped
Switch_SkipsDecode(s) ==
    CASE Deref(s).m_psState = PS_INVALID -> Bump(s, PS_IF)
      [] Deref(s).m_psState = PS_IF      -> Bump(s, PS_EX)
      [] Deref(s).m_psState = PS_ID      -> CaseID(s)
      [] Deref(s).m_psState = PS_EX      -> Bump(s, PS_WB)
      [] Deref(s).m_psState = PS_WB      -> CaseWB(s)
      [] OTHER                           -> s

\* the switch without case PS_EX: a record in Execute is left alone
Switch_HoldsExecute(s) ==
    CASE Deref(s).m_psState = PS_INVALID -> Bump(s, PS_IF)
      [] Deref(s).m_psState = PS_IF      -> Bump(s, PS_ID)
      [] Deref(s).m_psState = PS_ID      -> CaseID(s)
      [] Deref(s).m_psState = PS_WB      -> CaseWB(s)
      [] OTHER                           -> s

\* the switch on itr->GetState()
Switch(s) ==
    CASE Deref(s).m_psState = PS_INVALID -> Bump(s, PS_IF)
      [] Deref(s).m_psState = PS_IF      -> Bump(s, PS_ID)
      [] Deref(s).m_psState = PS_ID      -> CaseID(s)
      [] Deref(s).m_psState = PS_EX      -> Bump(s, PS_WB)
      [] Deref(s).m_psState = PS_WB      -> CaseWB(s)
      [] OTHER                           -> s

\* the loop without the bStalled test: it runs on to rend() after a stall
RECURSIVE StageLoop_NoStop(_)
StageLoop_NoStop(s) ==
    IF s.base = 1
    THEN s
    ELSE CHOOSE r \in {StageLoop_NoStop([t EXCEPT !.base = @ - 1]) :
                          t \in {Switch(s)}} : TRUE

\* for (itr = rbegin(); itr != rend() && bStalled == false; ++itr) switch ...
\* (t is the loop state after the body; ++itr moves base() one down)
RECURSIVE StageLoop(_)
StageLoop(s) ==
    IF s.base = 1 \/ s.bStalled
    THEN s
    ELSE CHOOSE r \in {StageLoop([t EXCEPT !.base = @ - 1]) : t \in {Switch(s)}} : TRUE

\* if (back().GetState() == PS_COMPLETED) pop_back();
\* variant: the back record is popped as soon as it is in WriteBack
Retire_WriteBack(lst) ==
    IF lst[Len(lst)].m_psState \in {PS_WB, PS_COMPLETED}
    THEN SubSeq(lst, 1, Len(lst) - 1)
    ELSE lst

\* variant: the back record is popped whatever its stage
Retire_Always(lst) ==
    SubSeq(lst, 1, Len(lst) - 1)

\* variant: nothing is ever popped
Retire_Never(lst) == lst

Retire(lst) ==
    IF lst[Len(lst)].m_psState = PS_COMPLETED
    THEN SubSeq(lst, 1, Len(lst) - 1)
    ELSE lst

\* the whole call, as the values it leaves behind
CycleResult(lst, que, stallCtr, completedCtr) ==
    LET a == Admission(lst, que)
        s == StageLoop([lst |-> a.lst, base |-> Len(a.lst) + 1,
                        bReturn |-> a.bReturn, bStalled |-> FALSE,
                        m_dwStallCtr |-> stallCtr,
                        m_dwCompletedCtr |-> completedCtr])
    IN  [lst |-> Retire(s.lst), que |-> a.que, bReturn |-> s.bReturn,
         bStalled |-> s.bStalled, m_dwStallCtr |-> s.m_dwStallCtr,
         m_dwCompletedCtr |-> s.m_dwCompletedCtr]

SimStep ==
    /\ m_dwCycle < MaxCycle
    /\ LET r == CycleResult(m_lstInstructionPipeline, m_queInstructions,
                            m_dwStallCtr, m_dwCompletedCtr)
       IN  /\ m_dwCycle' = m_dwCycle + 1
           /\ m_lstInstructionPipeline' = r.lst
           /\ m_queInstructions' = r.que
           /\ m_dwStallCtr' = r.m_dwStallCtr
           /\ m_dwCompletedCtr' = r.m_dwCompletedCtr
           /\ bReturn' = r.bReturn
           /\ bStalled' = r.bStalled
           /\ firstFalse' = IF firstFalse = 0 /\ ~r.bReturn
                            THEN m_dwCycle + 1 ELSE firstFalse
    /\ UNCHANGED <<inserted, sizeReturn>>

\* a client's call of ProcessNextCycle
ProcessNextCycle == SimStep /\ UNCHANGED <<dagVars, pc, tcout, clientVars>>

(***************************************************************************)
(* CPipelineSim::InsertInstruction; sizeReturn is what the call returns.   *)
(***************************************************************************)
\* variant: the records go to the front of the pending queue
SimInsert_AtFront(records) ==
    /\ m_queInstructions' = records \o m_queInstructions
    /\ inserted' = inserted \o records
    /\ sizeReturn' = IF records = <<>> THEN sizeReturn
                     ELSE Len(m_queInstructions \o records)
    /\ UNCHANGED <<m_dwCycle, m_dwStallCtr, m_dwCompletedCtr,
                   m_lstInstructionPipeline, bReturn, bStalled, firstFalse>>

\* records: the arguments of consecutive InsertInstruction calls
SimInsert(records) ==
    /\ m_queInstructions' = m_queInstructions \o records
    /\ inserted' = inserted \o records
    /\ sizeReturn' = IF records = <<>> THEN sizeReturn
                     ELSE Len(m_queInstructions \o records)
    /\ UNCHANGED <<m_dwCycle, m_dwStallCtr, m_dwCompletedCtr,
                   m_lstInstructionPipeline, bReturn, bStalled, firstFalse>>

(* A client inserts fresh records CInstructionData(id, bDataDependent)     *)
(* before it starts stepping, as ExecutePipelineSimulation does; the       *)
(* records carry the letters 'a', 'b', ... in order.                       *)
InsertInstruction ==
    /\ m_dwCycle = 0
    /\ Len(inserted) < MaxInstr
    /\ \E bDataDependent \in BOOLEAN :
          SimInsert(<<CInstructionData(CHAR_a + Len(inserted), PS_INVALID,
                                       bDataDependent)>>)
    /\ UNCHANGED <<dagVars, pc, tcout, clientVars>>

(* A client that inserts fresh records whenever it likes: before its      *)
(* first call of ProcessNextCycle, between calls and after a call has      *)
(* returned false.                                                         *)
InsertAnyTime ==
    /\ Len(inserted) < MaxLate
    /\ \E bDataDependent \in BOOLEAN :
          SimInsert(<<CInstructionData(CHAR_a + Len(inserted), PS_INVALID,
                                       bDataDependent)>>)
    /\ UNCHANGED <<dagVars, pc, tcout, clientVars>>

(***************************************************************************)
(* DependencyGraph.h / DependencyGraph.cpp.                                *)
(***************************************************************************)
INVALID_NODE_ID == 0

\* static_cast<size_t>(-1): the largest size_t, above every capacity
INVALID_NODE_INDEX == 0 - 1

CHAR_y == 121
CHAR_A == 65
CHAR_Y == 89

\* CDirectedEdgeData(idToNode, iWeight)
CDirectedEdgeData(idToNode, iWeight) ==
    [m_idDestNode |-> idToNode, m_iWeight |-> iWeight]

\* CGraphNode(): a vacant slot
CGraphNode == [m_ID |-> INVALID_NODE_ID, m_setEdges |-> {}]

\* CGraphNode::IsValid
IsValid(node) == node.m_ID # INVALID_NODE_ID

\* HasEdge that answers for any destination once the node has an edge
HasEdge_AnyEdge(node, idToNode) == node.m_setEdges # {}

\* CGraphNode::HasEdge: std::set::find under operator<, which compares
\* m_idDestNode only
HasEdge(node, idToNode) ==
    \E e \in node.m_setEdges : e.m_idDestNode = idToNode

\* CGraphNode::AddEdge that gives a present destination the new weight
NodeAddEdge_Overwrite(node, edge) ==
    IF IsValid(node) /\ ~HasEdge(node, edge.m_idDestNode)
    THEN [node |-> [node EXCEPT !.m_setEdges = @ \cup {edge}], bReturn |-> TRUE]
    ELSE [node |-> [node EXCEPT !.m_setEdges =
                       {IF e.m_idDestNode = edge.m_idDestNode THEN edge ELSE e :
                           e \in @}],
          bReturn |-> FALSE]

\* CGraphNode::AddEdge that does not look for the destination first
NodeAddEdge_NoLookup(node, edge) ==
    IF IsValid(node)
    THEN [node |-> [node EXCEPT !.m_setEdges = @ \cup {edge}], bReturn |-> TRUE]
    ELSE [node |-> node, bReturn |-> FALSE]

\* CGraphNode::AddEdge under an edge comparison that looks at the weight too
NodeAddEdge_ComparesWeight(node, edge) ==
    IF IsValid(node) /\ edge \notin node.m_setEdges
    THEN [node |-> [node EXCEPT !.m_setEdges = @ \cup {edge}], bReturn |-> TRUE]
    ELSE [node |-> node, bReturn |-> FALSE]

\* CGraphNode::AddEdge: [node after the call, return value]; std::set::insert
\* leaves the set alone when an equivalent element is present
NodeAddEdge(node, edge) ==
    IF IsValid(node) /\ ~HasEdge(node, edge.m_idDestNode)
    THEN [node |-> [node EXCEPT !.m_setEdges = @ \cup {edge}], bReturn |-> TRUE]
    ELSE [node |-> node, bReturn |-> FALSE]

\* CGraphNode::GetNumEdges
NodeGetNumEdges(node) ==
    IF IsValid(node) THEN Cardinality(node.m_setEdges) ELSE 0

\* CDependencyGraph::IsValidNodeID
IsValidNodeID(idNode) ==
    \/ (idNode >= CHAR_a /\ idNode <= CHAR_y)
    \/ (idNode >= CHAR_A /\ idNode <= CHAR_Y)

\* std::tolower in the default "C" locale
ToLower(c) == IF c >= 65 /\ c <= 90 THEN c + 32 ELSE c

\* GetNodeIndex that counts the slots down from 'y'
GetNodeIndex_FromY(idNode) ==
    IF IsValidNodeID(idNode) THEN CHAR_y - ToLower(idNode)
    ELSE INVALID_NODE_INDEX

\* CDependencyGraph::GetNodeIndex
GetNodeIndex(idNode) ==
    IF IsValidNodeID(idNode) THEN ToLower(idNode) - CHAR_a
    ELSE INVALID_NODE_INDEX

\* CDependencyGraph::IsValidNodeIndex: nIndex < m_nMaxNodes on size_t
IsValidNodeIndex(nIndex) ==
    nIndex # INVALID_NODE_INDEX /\ nIndex < m_nMaxNodes

\* CDependencyGraph::HasNode
HasNode(idNode) ==
    /\ IsValidNodeIndex(GetNodeIndex(idNode))
    /\ IsValid(m_vNodes[GetNodeIndex(idNode)])

\* the edge query on the node of an identity, as the graph's users make it:
\* the node is reached through the graph and skipped unless IsValid(), then
\* asked HasEdge(idToNode)
HasEdgeFrom(idNode, idToNode) ==
    /\ HasNode(idNode)
    /\ HasEdge(m_vNodes[GetNodeIndex(idNode)], idToNode)

\* CDependencyGraph::GetNumNodes
GetNumNodes == m_nNumNodes

\* CDependencyGraph::GetNumEdges
RECURSIVE SumEdges(_)
SumEdges(i) ==
    IF i = m_nMaxNodes THEN 0
    ELSE NodeGetNumEdges(m_vNodes[i]) + SumEdges(i + 1)

GetNumEdges == SumEdges(0)

\* AddNode that leaves the node count alone
AddNodeResult_NoCount(idNode) ==
    LET nNodeIndex == GetNodeIndex(idNode) IN
    IF IsValidNodeIndex(nNodeIndex) /\ ~IsValid(m_vNodes[nNodeIndex])
    THEN [m_vNodes |-> [m_vNodes EXCEPT ![nNodeIndex].m_ID = idNode],
          m_nNumNodes |-> m_nNumNodes, bReturn |-> TRUE]
    ELSE [m_vNodes |-> m_vNodes, m_nNumNodes |-> m_nNumNodes, bReturn |-> FALSE]

\* AddNode that takes the slot whether or not a node holds it
AddNodeResult_TakesSlot(idNode) ==
    LET nNodeIndex == GetNodeIndex(idNode) IN
    IF IsValidNodeIndex(nNodeIndex)
    THEN [m_vNodes |-> [m_vNodes EXCEPT ![nNodeIndex].m_ID = idNode],
          m_nNumNodes |-> m_nNumNodes + 1, bReturn |-> TRUE]
    ELSE [m_vNodes |-> m_vNodes, m_nNumNodes |-> m_nNumNodes, bReturn |-> FALSE]

\* CDependencyGraph::AddNode as the graph after the call and the return value
AddNodeResult(idNode) ==
    LET nNodeIndex == GetNodeIndex(idNode) IN
    IF IsValidNodeIndex(nNodeIndex) /\ ~IsValid(m_vNodes[nNodeIndex])
    THEN [m_vNodes |-> [m_vNodes EXCEPT ![nNodeIndex].m_ID = idNode],
          m_nNumNodes |-> m_nNumNodes + 1, bReturn |-> TRUE]
    ELSE [m_vNodes |-> m_vNodes, m_nNumNodes |-> m_nNumNodes, bReturn |-> FALSE]

\* AddEdge that does not validate the two identities
AddEdgeResult_NoIdCheck(idFromNode, idToNode, iWeight) ==
    LET nIndex == GetNodeIndex(idFromNode) IN
    IF IsValidNodeIndex(nIndex)
    THEN LET r == NodeAddEdge(m_vNodes[nIndex],
                              CDirectedEdgeData(idToNode, iWeight))
         IN  [m_vNodes |-> [m_vNodes EXCEPT ![nIndex] = r.node],
              bReturn |-> r.bReturn]
    ELSE [m_vNodes |-> m_vNodes, bReturn |-> FALSE]

\* CDependencyGraph::AddEdge as the graph after the call and the return value
AddEdgeResult(idFromNode, idToNode, iWeight) ==
    LET nIndex == GetNodeIndex(idFromNode) IN
    IF IsValidNodeID(idFromNode) /\ IsValidNodeID(idToNode)
       /\ IsValidNodeIndex(nIndex)
    THEN LET r == NodeAddEdge(m_vNodes[nIndex],
                              CDirectedEdgeData(idToNode, iWeight))
         IN  [m_vNodes |-> [m_vNodes EXCEPT ![nIndex] = r.node],
              bReturn |-> r.bReturn]
    ELSE [m_vNodes |-> m_vNodes, bReturn |-> FALSE]

(***************************************************************************)
(* Pipeline_Main.cpp: the loader, the closed forms, the driver.            *)
(***************************************************************************)
MAX_INSTRUCTIONS == 25
BASE_CYCLES_PER_INSTUCTION == 4

Letters == CHAR_a .. (CHAR_a + NumLetters - 1)

\* first characters of the tokens LoadData may read on the first line:
\* the letters, the upper-case 'B', and 'z' (outside the alphabet)
NodeTokens == Letters \cup {CHAR_A + 1, CHAR_y + 1}

\* <dependent, dependency> pairs LoadData may read: every letter (and 'B')
\* with the identity just below it, and 'c' with 'a'
EdgeTokens ==
    {<<x, x - 1>> : x \in Letters \cup {CHAR_A + 1}}
    \cup {<<CHAR_a + 2, CHAR_a>>}

\* LoadData, first loop: dag.AddNode(szLineBuffer[0])
AddNode(idNode) ==
    /\ pc = "nodes"
    /\ LET r == AddNodeResult(idNode)
       IN  /\ m_vNodes' = r.m_vNodes
           /\ m_nNumNodes' = r.m_nNumNodes
    /\ UNCHANGED <<simVars, m_nMaxNodes, pc, tcout, clientVars>>

\* LoadData, second loop: dag.AddEdge(idSrcNode, idDestNode, idSrcNode - idDestNode)
AddEdge(idSrcNode, idDestNode) ==
    /\ pc \in {"nodes", "edges"}
    /\ pc' = "edges"
    /\ m_vNodes' = AddEdgeResult(idSrcNode, idDestNode,
                                 idSrcNode - idDestNode).m_vNodes
    /\ UNCHANGED <<simVars, m_nMaxNodes, m_nNumNodes, tcout, clientVars>>

CalculateSequentialExecutionCycles == GetNumNodes * BASE_CYCLES_PER_INSTUCTION

CalculateCompleteOverlappedExecutionCycles == GetNumNodes + 3

\* stall nodes counted as the valid nodes with any dependency at all
StallNodes_AnyEdge ==
    {i \in 0..(m_nMaxNodes - 1) :
        IsValid(m_vNodes[i]) /\ m_vNodes[i].m_setEdges # {}}

\* the valid nodes it with it->HasEdge(it->GetNodeID() - 1)
StallNodes ==
    {i \in 0..(m_nMaxNodes - 1) :
        IsValid(m_vNodes[i]) /\ HasEdge(m_vNodes[i], m_vNodes[i].m_ID - 1)}

CalculateNumberOfStallsRequired == Cardinality(StallNodes)

\* the actual cycles taken from the simulator's stall counter
CalculatePartialOverlappedExecutionCycles_FromSim ==
    GetNumNodes + m_dwStallCtr + 3

CalculatePartialOverlappedExecutionCycles ==
    GetNumNodes + CalculateNumberOfStallsRequired + 3

\* the feed loop with the dependency looked up on the following identity
RECURSIVE FeedFrom_NextId(_)
FeedFrom_NextId(i) ==
    IF i = m_nMaxNodes THEN <<>>
    ELSE (IF IsValid(m_vNodes[i])
          THEN <<CInstructionData(m_vNodes[i].m_ID, PS_INVALID,
                                  HasEdge(m_vNodes[i], m_vNodes[i].m_ID + 1))>>
          ELSE <<>>) \o FeedFrom_NextId(i + 1)

\* ExecutePipelineSimulation, first loop: the records inserted for the
\* slots i, i + 1, ... in iteration order
RECURSIVE FeedFrom(_)
FeedFrom(i) ==
    IF i = m_nMaxNodes THEN <<>>
    ELSE (IF IsValid(m_vNodes[i])
          THEN <<CInstructionData(m_vNodes[i].m_ID, PS_INVALID,
                                  HasEdge(m_vNodes[i], m_vNodes[i].m_ID - 1))>>
          ELSE <<>>) \o FeedFrom(i + 1)

\* CPipelineSim::OutputCurrentInstructionCycle: one line, front to back
RECURSIVE Snapshot(_)
Snapshot(lst) ==
    IF lst = <<>> THEN <<>>
    ELSE (IF Head(lst).m_psState \in {PS_IF, PS_ID, PS_EX, PS_WB}
          THEN <<Head(lst).m_Instruction>> ELSE <<>>) \o Snapshot(Tail(lst))

\* ExecutePipelineSimulation: the loop that inserts the loaded instructions
ExecFeed ==
    /\ pc \in {"nodes", "edges"}
    /\ pc' = "fed"
    /\ SimInsert(FeedFrom(0))
    /\ UNCHANGED <<dagVars, tcout, clientVars>>

\* variant: the first call's state is rendered on the way into the loop too
ExecFirstCycle_Renders ==
    /\ pc = "fed"
    /\ pc' = "loop"
    /\ SimStep
    /\ tcout' = Append(tcout, Snapshot(m_lstInstructionPipeline'))
    /\ UNCHANGED <<dagVars, clientVars>>

\* bool bMoreInstructions = sim.ProcessNextCycle();
ExecFirstCycle ==
    /\ pc = "fed"
    /\ pc' = "loop"
    /\ SimStep
    /\ UNCHANGED <<dagVars, tcout, clientVars>>

\* variant: the loop advances first and renders what the call left
ExecLoop_AdvanceFirst ==
    /\ pc = "loop"
    /\ bReturn
    /\ SimStep
    /\ tcout' = Append(tcout, Snapshot(m_lstInstructionPipeline'))
    /\ UNCHANGED <<dagVars, pc, clientVars>>

\* while (bMoreInstructions) { Output...(tcout); bMoreInstructions = ProcessNextCycle(); }
ExecLoop ==
    /\ pc = "loop"
    /\ bReturn
    /\ tcout' = Append(tcout, Snapshot(m_lstInstructionPipeline))
    /\ SimStep
    /\ UNCHANGED <<dagVars, pc, clientVars>>

\* the loop ends; the closed-form total is printed
ExecEnd ==
    /\ pc = "loop"
    /\ ~bReturn
    /\ pc' = "done"
    /\ UNCHANGED <<simVars, dagVars, tcout, clientVars>>

(***************************************************************************)
(* Construction (g_DAG(MAX_INSTRUCTIONS), g_PipelineSim) and the           *)
(* specifications.                                                         *)
(***************************************************************************)
SimInit ==
    /\ m_dwCycle = 0
    /\ m_dwStallCtr = 0
    /\ m_dwCompletedCtr = 0
    /\ m_lstInstructionPipeline = <<>>
    /\ m_queInstructions = <<>>
    /\ bReturn = FALSE
    /\ bStalled = FALSE
    /\ inserted = <<>>
    /\ firstFalse = 0
    /\ sizeReturn = 0

DagInit ==
    /\ m_nMaxNodes = MAX_INSTRUCTIONS
    /\ m_nNumNodes = 0
    /\ m_vNodes = [i \in 0..(MAX_INSTRUCTIONS - 1) |-> CGraphNode]

\* no graph client has called yet
ClientInit ==
    /\ dagCall = [op |-> "none"]
    /\ nodeLog = {}
    /\ edgeLog = {}

Init == SimInit /\ DagInit /\ pc = "nodes" /\ tcout = <<>> /\ ClientInit

(***************************************************************************)
(* A client of the bare graph: CDependencyGraph(nMaxNodes), then AddNode   *)
(* and AddEdge calls in any order, each recorded with what it returned.    *)
(***************************************************************************)
DEFAULT_MAX_NODES == 10

\* identities a client names nodes with: 'a', 'b', 'B', 'k' (slot 10:
\* beyond the default capacity, inside the driver's) and 'z' (outside the
\* alphabet)
ClientIds ==
    {CHAR_a, CHAR_a + 1, CHAR_A + 1, CHAR_a + DEFAULT_MAX_NODES, CHAR_y + 1}

\* identities a client names edge sources with: 'B', 'k' and 'z'
ClientSources == {CHAR_A + 1, CHAR_a + DEFAULT_MAX_NODES, CHAR_y + 1}

\* identities a client names edge destinations with: 'a', 'A' and 'z'
ClientDests == {CHAR_a, CHAR_A, CHAR_y + 1}

\* edge weights a client passes
ClientWeights == 1..MaxWeight

\* CDependencyGraph::CDependencyGraph(nMaxNodes)
CDependencyGraph(nMaxNodes) ==
    /\ m_nMaxNodes = nMaxNodes
    /\ m_nNumNodes = 0
    /\ m_vNodes = [i \in 0..(nMaxNodes - 1) |-> CGraphNode]

\* what a client keeps of a call: the call, its return value, and the node
\* and edge counts it read before calling
ClientCall(op, idNode, idToNode, iWeight, ret) ==
    [op |-> op, idNode |-> idNode, idToNode |-> idToNode, iWeight |-> iWeight,
     bReturn |-> ret, nNodes |-> GetNumNodes, nEdges |-> GetNumEdges]

\* a client's dag.AddNode(idNode)
ClientAddNode(idNode) ==
    /\ LET r == AddNodeResult(idNode)
       IN  /\ m_vNodes' = r.m_vNodes
           /\ m_nNumNodes' = r.m_nNumNodes
           /\ dagCall' = ClientCall("AddNode", idNode, INVALID_NODE_ID, 0, r.bReturn)
           /\ nodeLog' = IF r.bReturn THEN nodeLog \cup {idNode} ELSE nodeLog
    /\ UNCHANGED <<simVars, m_nMaxNodes, pc, tcout, edgeLog>>

\* a client's dag.AddEdge(idFromNode, idToNode, iWeight)
ClientAddEdge(idFromNode, idToNode, iWeight) ==
    /\ LET r == AddEdgeResult(idFromNode, idToNode, iWeight)
       IN  /\ m_vNodes' = r.m_vNodes
           /\ dagCall' = ClientCall("AddEdge", idFromNode, idToNode, iWeight,
                                    r.bReturn)
           /\ edgeLog' = IF r.bReturn
                         THEN edgeLog \cup {<<idFromNode, idToNode, iWeight>>}
                         ELSE edgeLog
    /\ UNCHANGED <<simVars, m_nMaxNodes, m_nNumNodes, pc, tcout, nodeLog>>

\* a graph of the default capacity or of the driver's
InitGraph ==
    /\ SimInit
    /\ \E nMaxNodes \in {DEFAULT_MAX_NODES, MAX_INSTRUCTIONS} :
          CDependencyGraph(nMaxNodes)
    /\ pc = "nodes" /\ tcout = <<>>
    /\ ClientInit

NextGraph ==
    \/ \E idNode \in ClientIds : ClientAddNode(idNode)
    \/ \E idFromNode \in ClientSources, idToNode \in ClientDests,
          iWeight \in ClientWeights :
          ClientAddEdge(idFromNode, idToNode, iWeight)

SpecGraph == InitGraph /\ [][NextGraph]_vars

\* a client of the bare simulator
Next == InsertInstruction \/ ProcessNextCycle

Spec == Init /\ [][Next]_vars

\* the simulator under a client that inserts at any time
NextAnyTime == InsertAnyTime \/ ProcessNextCycle

SpecAnyTime == Init /\ [][NextAnyTime]_vars

\* the program: LoadData, then ExecutePipelineSimulation
NextDriver ==
    \/ \E idNode \in NodeTokens : AddNode(idNode)
    \/ \E e \in EdgeTokens : AddEdge(e[1], e[2])
    \/ ExecFeed
    \/ ExecFirstCycle
    \/ ExecLoop
    \/ ExecEnd

SpecDriver == Init /\ [][NextDriver]_vars

(***************************************************************************)
(* Vocabulary of the claims about the bare simulator.                      *)
(***************************************************************************)
NumInserted == Len(inserted)

\* the last call of ProcessNextCycle is the first one that returned false
AtFirstFalse == firstFalse # 0 /\ m_dwCycle = firstFalse

\* the last call of ProcessNextCycle returned false
ReturnedFalse == m_dwCycle > 0 /\ ~bReturn

NoneDependent == \A i \in 1..NumInserted : ~inserted[i].m_bDataDependent

ChainDependent ==
    /\ NumInserted >= 1
    /\ ~inserted[1].m_bDataDependent
    /\ \A i \in 2..NumInserted : inserted[i].m_bDataDependent

ActiveStages == {PS_IF, PS_ID, PS_EX, PS_WB}

\* indices of the in-flight list whose record carries identity id
Where(lst, id) == {i \in 1..Len(lst) : lst[i].m_Instruction = id}

\* the record of identity id is in the in-flight list in one of the stages
InStage(id, stages) ==
    \E i \in Where(m_lstInstructionPipeline, id) :
        m_lstInstructionPipeline[i].m_psState \in stages

\* number of in-flight records (bubbles included) in stage st
CountIn(st) ==
    Cardinality({i \in 1..Len(m_lstInstructionPipeline) :
                    m_lstInstructionPipeline[i].m_psState = st})

(* C1 as claimed: a record inserted as data dependent is never in Execute  *)
(* or WriteBack while the record inserted immediately before it is still   *)
(* in Fetch, Decode, Execute or WriteBack.                                 *)
C1_HazardSafety ==
    \A i \in 2..NumInserted :
        (inserted[i].m_bDataDependent
         /\ InStage(inserted[i].m_Instruction, {PS_EX, PS_WB}))
        => ~InStage(inserted[i - 1].m_Instruction, ActiveStages)

(* C2 as claimed: k >= 1 independent records; at the first call that       *)
(* returns false the cycle counter is k + 3 and no stall was counted.      *)
C2_Original ==
    (AtFirstFalse /\ NumInserted >= 1 /\ NoneDependent)
    => (m_dwCycle = NumInserted + 3 /\ m_dwStallCtr = 0)

(* C2 amended: k >= 1 independent records; the first call that returns     *)
(* false is call k + 4 (the k + 3 calls before it returned true), and no   *)
(* stall was counted.                                                      *)
C2_IndependentRun ==
    (AtFirstFalse /\ NumInserted >= 1 /\ NoneDependent)
    => (m_dwCycle = NumInserted + 4 /\ m_dwStallCtr = 0)

C2_Witness ==
    AtFirstFalse /\ NumInserted = 3 /\ NoneDependent /\ m_dwCompletedCtr = 3

(* C3 as claimed: k >= 1 records, all but the first data dependent; at the *)
(* first call that returns false there were k - 1 stalls and the cycle     *)
(* counter is 2k + 2.                                                      *)
C3_Original ==
    (AtFirstFalse /\ ChainDependent)
    => (m_dwStallCtr = NumInserted - 1 /\ m_dwCycle = 2 * NumInserted + 2)

(* C3 amended: k >= 1 records, all but the first data dependent; at the    *)
(* first call that returns false there were k - 1 stalls and the cycle     *)
(* counter is 2k + 3 (the 2k + 2 calls before it returned true).           *)
C3_DependentChain ==
    (AtFirstFalse /\ ChainDependent)
    => (m_dwStallCtr = NumInserted - 1 /\ m_dwCycle = 2 * NumInserted + 3)

C3_Witness ==
    AtFirstFalse /\ ChainDependent /\ NumInserted = 3 /\ m_dwStallCtr = 2

(* C6 as claimed: after every call no two in-flight records are in the     *)
(* same stage among Fetch, Decode, Execute, WriteBack.                     *)
C6_OnePerStage == \A st \in ActiveStages : CountIn(st) <= 1

(* C7 as claimed: a call raises the stall counter by at most 1, and after  *)
(* a call that injected a stall no two in-flight records (bubbles          *)
(* included) are in Execute.                                               *)
C7_OneStallOneExecute ==
    /\ [][m_dwStallCtr' <= m_dwStallCtr + 1]_vars
    /\ [](bStalled => CountIn(PS_EX) <= 1)

(* C8 as claimed: whenever a call returns false the pending queue is       *)
(* empty, no in-flight instruction is short of Completed, and the          *)
(* completion counter equals the number of records inserted.               *)
C8_FalseMeansDone ==
    ReturnedFalse
    => /\ m_queInstructions = <<>>
       /\ \A i \in 1..Len(m_lstInstructionPipeline) :
             IsNOOP(m_lstInstructionPipeline[i])
             \/ m_lstInstructionPipeline[i].m_psState = PS_COMPLETED
       /\ m_dwCompletedCtr = NumInserted

\* in this step the in-flight instruction of identity id changed stage
\* (an instruction that left the list was retired: WriteBack -> Completed)
ChangedStage(id) ==
    \E i \in Where(m_lstInstructionPipeline, id) :
        \A j \in Where(m_lstInstructionPipeline', id) :
            m_lstInstructionPipeline'[j].m_psState
                # m_lstInstructionPipeline[i].m_psState

\* in this step a record left the pending queue for the in-flight list
AdmittedFromQueue == Len(m_queInstructions') < Len(m_queInstructions)

(* C9 as claimed: a call returns true iff in it some instruction changed   *)
(* stage, was admitted from the pending queue, or was stalled in Decode;   *)
(* so every call that injects a stall returns true.                        *)
C9_ReturnIffProgress ==
    [][m_dwCycle' = m_dwCycle + 1
       => /\ bReturn' <=> \/ \E i \in 1..NumInserted :
                                 ChangedStage(inserted[i].m_Instruction)
                          \/ AdmittedFromQueue
                          \/ bStalled'
          /\ bStalled' => bReturn']_vars

\* in this step the instruction of identity id moved WriteBack -> Completed
\* (it is marked Completed, or was retired from the back of the list)
MovedToCompleted(id) ==
    /\ InStage(id, {PS_WB})
    /\ \A j \in Where(m_lstInstructionPipeline', id) :
          m_lstInstructionPipeline'[j].m_psState = PS_COMPLETED

(* C11: in every call the completion counter grows exactly by the number   *)
(* of instructions (non-bubble records) that moved WriteBack -> Completed  *)
(* in the call, so a call in which only a bubble reached Completed leaves  *)
(* it unchanged; the counter never exceeds the number of records inserted. *)
C11_BubblesNotCounted ==
    /\ [][m_dwCycle' = m_dwCycle + 1
          => m_dwCompletedCtr' = m_dwCompletedCtr
                + Cardinality({i \in 1..NumInserted :
                                  MovedToCompleted(inserted[i].m_Instruction)})]_vars
    /\ [](m_dwCompletedCtr <= NumInserted)

\* all instructions are counted, a stall bubble went through, and calls
\* went on long enough for the bubbles admitted behind them to complete
C11_Witness ==
    /\ NumInserted >= 2
    /\ m_dwCompletedCtr = NumInserted
    /\ m_dwStallCtr >= 1
    /\ firstFalse # 0
    /\ m_dwCycle >= firstFalse + 2 + m_dwMaxPipelineDepth
    /\ \A i \in 1..Len(m_lstInstructionPipeline) :
          IsNOOP(m_lstInstructionPipeline[i])

(***************************************************************************)
(* Vocabulary of the claims about the program run.                         *)
(***************************************************************************)
\* the driver loop has ended: ProcessNextCycle returned false to it
DriverFinished == pc = "done"

ValidSlots == {i \in 0..(m_nMaxNodes - 1) : IsValid(m_vNodes[i])}

\* every dependency stored in the graph names an added node
WellFormed ==
    \A i \in ValidSlots : \A e \in m_vNodes[i].m_setEdges :
        HasNode(e.m_idDestNode)

\* the edge set of slot i holds exactly the destinations dests
EdgesOf(i, dests) ==
    {e.m_idDestNode : e \in m_vNodes[i].m_setEdges} = dests

\* nodes a, b, c, d, e, f with the dependencies (b, a) and (e, d)
WorkedExample ==
    /\ m_nMaxNodes = MAX_INSTRUCTIONS
    /\ ValidSlots = 0..5
    /\ \A i \in 0..5 : m_vNodes[i].m_ID = CHAR_a + i
    /\ EdgesOf(1, {CHAR_a}) /\ EdgesOf(4, {CHAR_a + 3})
    /\ \A i \in {0, 2, 3, 5} : EdgesOf(i, {})

(* C4: on the capacity-25 graph with nodes a..f and the dependencies       *)
(* (b, a) and (e, d), the closed forms give 2 stalls, 24 sequential, 9     *)
(* ideal and 11 actual cycles, and the simulation driven from the graph    *)
(* ends with 2 stalls counted and 6 instructions completed.                *)
C4_WorkedExample ==
    WorkedExample
    => /\ CalculateNumberOfStallsRequired = 2
       /\ CalculateSequentialExecutionCycles = 24
       /\ CalculateCompleteOverlappedExecutionCycles = 9
       /\ CalculatePartialOverlappedExecutionCycles = 11
       /\ DriverFinished => (m_dwStallCtr = 2 /\ m_dwCompletedCtr = 6)

C4_Witness == WorkedExample /\ DriverFinished /\ NumInserted = 6

(* C5: for a graph whose stored dependencies all name added nodes, once    *)
(* the driver loop has ended the simulator's stall counter equals the      *)
(* closed-form number of stalls required.                                  *)
C5_StallsAgree ==
    (DriverFinished /\ WellFormed)
    => m_dwStallCtr = CalculateNumberOfStallsRequired

C5_Witness ==
    /\ DriverFinished /\ WellFormed
    /\ m_dwStallCtr = 2
    /\ GetNumEdges >= 3
    /\ Cardinality(ValidSlots) < NumLetters

(***************************************************************************)
(* The bare simulator stepped by a client that keeps calling.              *)
(***************************************************************************)
FairSpec == Spec /\ WF_vars(ProcessNextCycle)

(* C10: for every sequence of records inserted before stepping, repeated   *)
(* calls of ProcessNextCycle reach a call that returns false; on the way   *)
(* the pending queue never grows and the stall counter never exceeds the   *)
(* number of records inserted as data dependent.  (MaxCycle leaves room    *)
(* for the 2k + 3 calls the longest run of k records takes.)               *)
C10_Termination ==
    /\ <>ReturnedFalse
    /\ [][m_dwCycle' = m_dwCycle + 1
          => Len(m_queInstructions') <= Len(m_queInstructions)]_vars
    /\ [](m_dwStallCtr <= Cardinality({i \in 1..NumInserted :
                                          inserted[i].m_bDataDependent}))

C10_Witness ==
    /\ ReturnedFalse
    /\ NumInserted >= 3
    /\ m_dwStallCtr >= 1
    /\ m_dwCompletedCtr = NumInserted

(***************************************************************************)
(* Vocabulary of the claims about the bare graph.  In SpecGraph every step *)
(* is one client call: dagCall' is the call made in the step, dagCall the  *)
(* call before it.                                                         *)
(***************************************************************************)
\* the identities of the alphabet: 'a'..'y' and 'A'..'Y'
Alphabet == (CHAR_a..CHAR_y) \cup (CHAR_A..CHAR_Y)

\* the letter of an alphabet identity, as its offset from 'a' or from 'A'
LetterOf(x) == IF x >= CHAR_a THEN x - CHAR_a ELSE x - CHAR_A

\* two identities are the same letter, in whichever case
SameLetter(x, y) == LetterOf(x) = LetterOf(y)

\* x names a node some AddNode call returned true for
Added(x) == \E y \in nodeLog : SameLetter(x, y)

(* C12: for an alphabet identity x whose slot index is below the capacity  *)
(* and that is not in the graph, AddNode(x) returns true and raises the    *)
(* node count by 1; an AddNode of the same letter (either case) right      *)
(* after a successful one returns false, and the node count is 1 above     *)
(* what it was before the two calls.                                       *)
C12_AddNodeTwice ==
    [][/\ (/\ dagCall'.op = "AddNode"
           /\ dagCall'.idNode \in Alphabet
           /\ LetterOf(dagCall'.idNode) < m_nMaxNodes
           /\ ~Added(dagCall'.idNode))
          => (dagCall'.bReturn /\ GetNumNodes' = GetNumNodes + 1)
       /\ (/\ dagCall.op = "AddNode" /\ dagCall.bReturn
           /\ dagCall'.op = "AddNode"
           /\ SameLetter(dagCall'.idNode, dagCall.idNode))
          => (~dagCall'.bReturn /\ GetNumNodes' = dagCall.nNodes + 1)]_vars

\* AddNode('b') returned true and AddNode('B') has just returned false
C12_Witness ==
    /\ nodeLog = {CHAR_a + 1}
    /\ dagCall.op = "AddNode" /\ dagCall.idNode = CHAR_A + 1
    /\ ~dagCall.bReturn
    /\ GetNumNodes = 1

\* an AddEdge call from the node named x to destination y returned true
EdgeAdded(x, y) ==
    \E e \in edgeLog : SameLetter(e[1], x) /\ e[2] = y

(* C13: for alphabet identities a, b with a added and no edge a->b added,  *)
(* AddEdge(a, b, w) returns true and raises the edge count by 1; an        *)
(* AddEdge(a, b, w') right after a successful AddEdge(a, b, w) returns     *)
(* false, and the edge count is 1 above what it was before the two calls.  *)
C13_AddEdgeTwice ==
    [][/\ (/\ dagCall'.op = "AddEdge"
           /\ dagCall'.idNode \in Alphabet /\ dagCall'.idToNode \in Alphabet
           /\ Added(dagCall'.idNode)
           /\ ~EdgeAdded(dagCall'.idNode, dagCall'.idToNode))
          => (dagCall'.bReturn /\ GetNumEdges' = GetNumEdges + 1)
       /\ (/\ dagCall.op = "AddEdge" /\ dagCall.bReturn
           /\ dagCall'.op = "AddEdge"
           /\ SameLetter(dagCall'.idNode, dagCall.idNode)
           /\ dagCall'.idToNode = dagCall.idToNode)
          => (~dagCall'.bReturn /\ GetNumEdges' = dagCall.nEdges + 1)]_vars

\* AddEdge('B', 'a', 1) returned true and AddEdge('B', 'a', 2) has just
\* returned false
C13_Witness ==
    /\ edgeLog = {<<CHAR_A + 1, CHAR_a, 1>>}
    /\ dagCall.op = "AddEdge" /\ ~dagCall.bReturn
    /\ dagCall.idNode = CHAR_A + 1 /\ dagCall.idToNode = CHAR_a
    /\ dagCall.iWeight = MaxWeight
    /\ GetNumEdges = 1

\* the identities the edge query is asked about
QueryIds == ClientIds \cup ClientSources \cup ClientDests

(* C14: after any sequence of AddNode / AddEdge calls, the edge query      *)
(* (x, y) is true only if an AddEdge call from x to y returned true; it is *)
(* false for every x that was never added and for every pair no such edge  *)
(* was added for.                                                          *)
C14_EdgeQuerySound ==
    \A x \in QueryIds, y \in QueryIds :
        /\ HasEdgeFrom(x, y) => EdgeAdded(x, y)
        /\ ~Added(x) => ~HasEdgeFrom(x, y)

\* node 'b' has the edge to 'a' and not the one to 'A'; 'a' was never added
C14_Witness ==
    /\ HasEdgeFrom(CHAR_a + 1, CHAR_a)
    /\ ~HasEdgeFrom(CHAR_a + 1, CHAR_A)
    /\ ~Added(CHAR_a)
    /\ Added(CHAR_a + DEFAULT_MAX_NODES)

\* the identities met by iterating the graph from begin() to end() and
\* skipping the nodes that are not IsValid(), as the driver's feed loop does
IterationIds ==
    [i \in 1..Len(FeedFrom(0)) |-> FeedFrom(0)[i].m_Instruction]

(* C15: whatever the order of the AddNode calls, iterating the graph and   *)
(* skipping invalid slots yields exactly the identities added, each once,  *)
(* in strictly ascending case-folded order; the sequence the driver feeds  *)
(* is thus fixed by the set of identities added.                           *)
C15_IterationOrder ==
    /\ {IterationIds[i] : i \in 1..Len(IterationIds)} = nodeLog
    /\ Len(IterationIds) = Cardinality(nodeLog)
    /\ \A i, j \in 1..Len(IterationIds) :
          i < j => LetterOf(IterationIds[i]) < LetterOf(IterationIds[j])

\* 'k', 'B' and 'a' are in the graph, and 'a' was added last
C15_Witness ==
    /\ nodeLog = {CHAR_a, CHAR_A + 1, CHAR_a + DEFAULT_MAX_NODES}
    /\ dagCall.op = "AddNode" /\ dagCall.bReturn /\ dagCall.idNode = CHAR_a
    /\ IterationIds = <<CHAR_a, CHAR_A + 1, CHAR_a + DEFAULT_MAX_NODES>>

\* the slots that hold identity x
SlotsOf(x) == {i \in DOMAIN m_vNodes : m_vNodes[i].m_ID = x}

(* C16: after any sequence of AddNode / AddEdge calls on a graph built     *)
(* with capacity c, the capacity is still c and the storage has exactly c  *)
(* slots, the node count equals the number of valid slots and is at most   *)
(* c, and every identity added is in exactly one slot, the one of its      *)
(* case-folded offset.                                                     *)
C16_FixedCapacity ==
    /\ [][m_nMaxNodes' = m_nMaxNodes /\ DOMAIN m_vNodes' = DOMAIN m_vNodes]_vars
    /\ [](/\ DOMAIN m_vNodes = 0..(m_nMaxNodes - 1)
          /\ GetNumNodes = Cardinality(ValidSlots)
          /\ GetNumNodes <= m_nMaxNodes
          /\ \A x \in nodeLog : SlotsOf(x) = {LetterOf(x)})

\* on the graph of default capacity 'a' and 'B' were added and AddNode('k')
\* has just returned false
C16_Witness ==
    /\ m_nMaxNodes = DEFAULT_MAX_NODES
    /\ nodeLog = {CHAR_a, CHAR_A + 1}
    /\ dagCall.op = "AddNode" /\ ~dagCall.bReturn
    /\ dagCall.idNode = CHAR_a + DEFAULT_MAX_NODES
    /\ GetNumEdges >= 1

(* C17 as claimed: AddEdge(from, to, w) returns false and adds no edge     *)
(* whenever from or to was not registered by a successful AddNode, so      *)
(* every edge in the graph joins two added nodes.                          *)
C17_EdgesJoinAdded ==
    /\ [][(/\ dagCall'.op = "AddEdge"
           /\ (~Added(dagCall'.idNode) \/ ~Added(dagCall'.idToNode)))
          => (~dagCall'.bReturn /\ m_vNodes' = m_vNodes)]_vars
    /\ [](\A i \in ValidSlots : \A e \in m_vNodes[i].m_setEdges :
             Added(m_vNodes[i].m_ID) /\ Added(e.m_idDestNode))

(* C18: a failing call is a false return that leaves the graph as it was.  *)
(* AddNode(x) returns false, with node count and slots unchanged, when x   *)
(* is outside the alphabet, its slot index is not below the capacity, or   *)
(* the slot is already valid.  AddEdge returns false, with edge count and  *)
(* edge sets unchanged, when either identity is outside the alphabet, the  *)
(* source index is not below the capacity, or the destination is already   *)
(* present.  No call that returns false changes the graph.                 *)
C18_FailuresChangeNothing ==
    [][/\ (/\ dagCall'.op = "AddNode"
           /\ \/ dagCall'.idNode \notin Alphabet
              \/ LetterOf(dagCall'.idNode) >= m_nMaxNodes
              \/ Added(dagCall'.idNode))
          => ~dagCall'.bReturn
       /\ (/\ dagCall'.op = "AddEdge"
           /\ \/ dagCall'.idNode \notin Alphabet
              \/ dagCall'.idToNode \notin Alphabet
              \/ LetterOf(dagCall'.idNode) >= m_nMaxNodes
              \/ EdgeAdded(dagCall'.idNode, dagCall'.idToNode))
          => ~dagCall'.bReturn
       /\ (dagCall'.op # "none" /\ ~dagCall'.bReturn)
          => (m_vNodes' = m_vNodes /\ GetNumNodes' = GetNumNodes)
       \* nNodes and nEdges are GetNumNodes() and GetNumEdges() as read
       \* before a call: after a call that returned false the next call
       \* reads what that call had read
       /\ (dagCall.op # "none" /\ ~dagCall.bReturn)
          => (/\ dagCall'.nNodes = dagCall.nNodes
              /\ dagCall'.nEdges = dagCall.nEdges)]_vars

\* on the graph of default capacity, holding an edge, AddEdge from 'k' has
\* just returned false
C18_Witness ==
    /\ m_nMaxNodes = DEFAULT_MAX_NODES
    /\ dagCall.op = "AddEdge" /\ ~dagCall.bReturn
    /\ dagCall.idNode = CHAR_a + DEFAULT_MAX_NODES
    /\ dagCall.idToNode = CHAR_a
    /\ GetNumEdges = 1 /\ dagCall.nEdges = 1

\* the data-dependence flag the driver's feed loop gives the node of slot i
FeedFlag(i) == HasEdge(m_vNodes[i], m_vNodes[i].m_ID - 1)

(* C19 as claimed: edges are case-insensitive like nodes.  An AddEdge to   *)
(* the other letter case of a destination, right after a successful        *)
(* AddEdge from the same node to it, returns false and leaves the edge     *)
(* count; the edge query answers alike for both cases of an added edge's   *)
(* destination; and the driver's flag of a node is set exactly when an     *)
(* edge was added from its letter to the letter before it, in any case.    *)
C19_EdgesIgnoreCase ==
    /\ [][(/\ dagCall.op = "AddEdge" /\ dagCall.bReturn
           /\ dagCall'.op = "AddEdge"
           /\ SameLetter(dagCall'.idNode, dagCall.idNode)
           /\ dagCall'.idToNode \in Alphabet
           /\ SameLetter(dagCall'.idToNode, dagCall.idToNode)
           /\ dagCall'.idToNode # dagCall.idToNode)
          => (/\ ~dagCall'.bReturn
              /\ GetNumEdges' = GetNumEdges
              /\ HasEdgeFrom(dagCall.idNode, dagCall.idToNode)')]_vars
    /\ [](\A e \in edgeLog : \A y \in Alphabet :
             SameLetter(y, e[2]) => HasEdgeFrom(e[1], y))
    /\ [](\A i \in ValidSlots \ {0} :
             FeedFlag(i) <=> \E e \in edgeLog :
                                LetterOf(e[1]) = i /\ LetterOf(e[2]) = i - 1)

\* the edge stored in the node of x for destination y has weight w
StoredWeight(x, y, w) ==
    /\ HasNode(x)
    /\ {e.m_iWeight : e \in {d \in m_vNodes[GetNodeIndex(x)].m_setEdges :
                                 d.m_idDestNode = y}} = {w}

(* C20: a duplicate AddEdge is rejected, not an overwrite.  An             *)
(* AddEdge(a, b, w2) with w2 # w1 right after a successful                 *)
(* AddEdge(a, b, w1) returns false and leaves every node and edge as it    *)
(* was, the weight of a->b still w1; and at all times the weight stored    *)
(* for an edge is the one of the call that added it.                       *)
C20_DuplicateKeepsWeight ==
    /\ [][(/\ dagCall.op = "AddEdge" /\ dagCall.bReturn
           /\ dagCall'.op = "AddEdge"
           /\ SameLetter(dagCall'.idNode, dagCall.idNode)
           /\ dagCall'.idToNode = dagCall.idToNode
           /\ dagCall'.iWeight # dagCall.iWeight)
          => (/\ ~dagCall'.bReturn
              /\ StoredWeight(dagCall.idNode, dagCall.idToNode,
                              dagCall.iWeight)
              /\ m_vNodes' = m_vNodes /\ m_nNumNodes' = m_nNumNodes)]_vars
    /\ [](\A e \in edgeLog : StoredWeight(e[1], e[2], e[3]))

\* the edge 'B' -> 'A' was added with the largest weight and an AddEdge
\* for it with weight 1 has just returned false
C20_Witness ==
    /\ <<CHAR_A + 1, CHAR_A, MaxWeight>> \in edgeLog
    /\ dagCall.op = "AddEdge" /\ ~dagCall.bReturn
    /\ dagCall.idNode = CHAR_A + 1 /\ dagCall.idToNode = CHAR_A
    /\ dagCall.iWeight = 1
    /\ StoredWeight(CHAR_a + 1, CHAR_A, MaxWeight)

(***************************************************************************)
(* Vocabulary of the claims about one call of ProcessNextCycle, as a step  *)
(* from the in-flight list before the call to the list after it.           *)
(***************************************************************************)
\* the step is a call of ProcessNextCycle
IsCall == m_dwCycle' = m_dwCycle + 1

\* the call injected a stall
StallInjected == m_dwStallCtr' = m_dwStallCtr + 1

\* record r waits in Decode with its data-dependence flag set
FlaggedInDecode(r) == r.m_psState = PS_ID /\ r.m_bDataDependent

\* the index, before the call, of the record X the stall was injected for:
\* the flagged record in Decode whose flag the call cleared
StalledIndex ==
    CHOOSE k \in 1..Len(m_lstInstructionPipeline) :
        /\ FlaggedInDecode(m_lstInstructionPipeline[k])
        /\ \A j \in Where(m_lstInstructionPipeline',
                           m_lstInstructionPipeline[k].m_Instruction) :
              ~m_lstInstructionPipeline'[j].m_bDataDependent

\* records the call pushes to the front: one when it starts with at most
\* m_dwMaxPipelineDepth records in flight
Pushed == IF Len(m_lstInstructionPipeline) <= m_dwMaxPipelineDepth THEN 1 ELSE 0

\* where the record at index i before the call is after it: behind what
\* was pushed, and behind the stall bubble if it is older than X
PostIndex(i) ==
    i + Pushed + (IF StallInjected /\ i > StalledIndex THEN 1 ELSE 0)

\* the call removed the record at index i (the back) from the list
RetiredAt(i) ==
    /\ i = Len(m_lstInstructionPipeline)
    /\ PostIndex(i) = Len(m_lstInstructionPipeline') + 1

\* the record at index i before the call is still in flight after it
InFlightAfter(i) == PostIndex(i) <= Len(m_lstInstructionPipeline')

\* the record at index i before the call, as it is after the call
After(i) == m_lstInstructionPipeline'[PostIndex(i)]

(* C24: a call injects a stall exactly when the list it starts with holds  *)
(* a flagged record in Decode.  The record X it stalls stays in Decode     *)
(* with its flag now false, the stall counter grows by 1, a new bubble in  *)
(* Execute sits next to X on its back side, and every other record of the  *)
(* list is still there in the same order, the back one possibly retired.   *)
C24_StallStep ==
    [][IsCall =>
        /\ StallInjected <=>
               \E k \in 1..Len(m_lstInstructionPipeline) :
                   FlaggedInDecode(m_lstInstructionPipeline[k])
        /\ m_dwStallCtr' \in {m_dwStallCtr, m_dwStallCtr + 1}
        /\ StallInjected =>
              LET X == m_lstInstructionPipeline[StalledIndex] IN
              /\ FlaggedInDecode(X) /\ ~IsNOOP(X)
              /\ After(StalledIndex) = [X EXCEPT !.m_bDataDependent = FALSE]
              /\ m_lstInstructionPipeline'[PostIndex(StalledIndex) + 1]
                    = CNoopInstruction(PS_EX)
              /\ \A i \in 1..Len(m_lstInstructionPipeline) :
                    \/ RetiredAt(i)
                    \/ /\ InFlightAfter(i)
                       /\ After(i).m_Instruction
                            = m_lstInstructionPipeline[i].m_Instruction
              /\ Len(m_lstInstructionPipeline')
                    \in {Len(m_lstInstructionPipeline) + Pushed + 1,
                         Len(m_lstInstructionPipeline) + Pushed}]_vars

\* a stall was injected for 'c' with the older 'b' and 'a' in flight: the
\* bubble in Execute is right behind 'c', which is in Decode, flag cleared
C24_Witness ==
    /\ bStalled
    /\ \E k \in 1..(Len(m_lstInstructionPipeline) - 2) :
          /\ m_lstInstructionPipeline[k]
                = CInstructionData(CHAR_a + 2, PS_ID, FALSE)
          /\ m_lstInstructionPipeline[k + 1] = CNoopInstruction(PS_EX)
          /\ ~IsNOOP(m_lstInstructionPipeline[k + 2])
    /\ inserted[3].m_bDataDependent

(* C25: in a call that injects a stall for record X, every record newer    *)
(* than X (nearer the front) is after the call exactly as it was before    *)
(* the pass, and a record the call itself admitted is still Uninitialized. *)
C25_StallBlocksNewer ==
    [][(IsCall /\ StallInjected) =>
        /\ \A i \in 1..(StalledIndex - 1) :
              InFlightAfter(i) /\ After(i) = m_lstInstructionPipeline[i]
        /\ Pushed = 1 =>
              m_lstInstructionPipeline'[1] =
                 IF m_queInstructions # <<>>
                 THEN [Head(m_queInstructions) EXCEPT !.m_psState = PS_INVALID]
                 ELSE CNoopInstruction(PS_INVALID)]_vars

\* after a stalled call the instruction it admitted is still Uninitialized
\* and the one before it is still in Fetch
C25_Witness ==
    /\ bStalled
    /\ Len(m_lstInstructionPipeline) >= 4
    /\ ~IsNOOP(m_lstInstructionPipeline[1])
    /\ m_lstInstructionPipeline[1].m_psState = PS_INVALID
    /\ ~IsNOOP(m_lstInstructionPipeline[2])
    /\ m_lstInstructionPipeline[2].m_psState = PS_IF

(* C26 as claimed: in a call that injects a stall for record X, no record  *)
(* older than X (nearer the back) is advanced: each keeps its stage.       *)
C26_Original ==
    [][(IsCall /\ StallInjected) =>
        \A i \in (StalledIndex + 1)..Len(m_lstInstructionPipeline) :
            /\ InFlightAfter(i)
            /\ After(i).m_psState = m_lstInstructionPipeline[i].m_psState]_vars

\* the stage after st in Uninitialized -> Fetch -> Decode -> Execute ->
\* WriteBack -> Completed
NextStage(st) ==
    CASE st = PS_INVALID -> PS_IF
      [] st = PS_IF      -> PS_ID
      [] st = PS_ID      -> PS_EX
      [] st = PS_EX      -> PS_WB
      [] OTHER           -> PS_COMPLETED

(* C26 amended: in a call that injects a stall for record X, every record  *)
(* older than X (nearer the back) that is not yet Completed is advanced    *)
(* by exactly one stage in that call, the pass having visited it before    *)
(* it reached X; the back record is retired if that takes it to Completed. *)
C26_OlderAdvance ==
    [][(IsCall /\ StallInjected) =>
        \A i \in (StalledIndex + 1)..Len(m_lstInstructionPipeline) :
            m_lstInstructionPipeline[i].m_psState # PS_COMPLETED =>
               \/ /\ RetiredAt(i)
                  /\ m_lstInstructionPipeline[i].m_psState = PS_WB
               \/ /\ InFlightAfter(i)
                  /\ After(i).m_psState
                       = NextStage(m_lstInstructionPipeline[i].m_psState)]_vars

\* after a stalled call the instruction older than the stalled one is in
\* WriteBack, behind the new bubble
C26_Witness ==
    /\ bStalled
    /\ \E k \in 1..(Len(m_lstInstructionPipeline) - 2) :
          /\ ~IsNOOP(m_lstInstructionPipeline[k])
          /\ m_lstInstructionPipeline[k].m_psState = PS_ID
          /\ m_lstInstructionPipeline[k + 1] = CNoopInstruction(PS_EX)
          /\ ~IsNOOP(m_lstInstructionPipeline[k + 2])
          /\ m_lstInstructionPipeline[k + 2].m_psState = PS_WB

\* the indices of the records inserted with the data-dependence flag set
FlaggedInserted == {i \in 1..NumInserted : inserted[i].m_bDataDependent}

\* identity id was inserted with the data-dependence flag set
InsertedFlagged(id) ==
    \E i \in FlaggedInserted : inserted[i].m_Instruction = id

\* the flag of the inserted record of identity id has been used up: the
\* record has left the pending queue and is not in flight with it set
FlagConsumed(id) ==
    /\ \A i \in 1..Len(m_queInstructions) :
          m_queInstructions[i].m_Instruction # id
    /\ \A j \in Where(m_lstInstructionPipeline, id) :
          ~m_lstInstructionPipeline[j].m_bDataDependent

(* C27: the data-dependence flag is consumed exactly once.  A call injects *)
(* at most one stall, always for an instruction (never a bubble) that was  *)
(* inserted with the flag set, and clears its flag; no call sets a flag;   *)
(* so the stall counter is the number of flagged records whose flag has    *)
(* been consumed and never exceeds the number inserted with the flag set.  *)
C27_FlagConsumedOnce ==
    /\ [][IsCall =>
            /\ m_dwStallCtr' \in {m_dwStallCtr, m_dwStallCtr + 1}
            /\ StallInjected =>
                  /\ ~IsNOOP(m_lstInstructionPipeline[StalledIndex])
                  /\ InsertedFlagged(
                        m_lstInstructionPipeline[StalledIndex].m_Instruction)
                  /\ ~After(StalledIndex).m_bDataDependent
            /\ \A id \in {inserted[i].m_Instruction : i \in 1..NumInserted} :
                  FlagConsumed(id) => FlagConsumed(id)']_vars
    /\ [](/\ \A j \in 1..Len(m_lstInstructionPipeline) :
               m_lstInstructionPipeline[j].m_bDataDependent
               => /\ ~IsNOOP(m_lstInstructionPipeline[j])
                  /\ InsertedFlagged(m_lstInstructionPipeline[j].m_Instruction)
          /\ m_dwStallCtr =
                Cardinality({i \in FlaggedInserted :
                                FlagConsumed(inserted[i].m_Instruction)})
          /\ m_dwStallCtr <= Cardinality(FlaggedInserted))

\* two flagged and at least two unflagged records ran to completion with
\* two stalls
C27_Witness ==
    /\ Cardinality(FlaggedInserted) = 2
    /\ NumInserted >= 4
    /\ m_dwCompletedCtr = NumInserted
    /\ m_dwStallCtr = 2

(* C28: in every call each record of the in-flight list either keeps its   *)
(* stage or moves to the next stage of Uninitialized -> Fetch -> Decode -> *)
(* Execute -> WriteBack -> Completed; a record in Completed stays there    *)
(* until it is removed, and only a record that reached Completed is        *)
(* removed.  A record the call pushed is at most in Fetch after it.        *)
C28_OneStepForward ==
    [][IsCall =>
        /\ \A i \in 1..Len(m_lstInstructionPipeline) :
              LET st == m_lstInstructionPipeline[i].m_psState IN
              \/ RetiredAt(i) /\ st \in {PS_WB, PS_COMPLETED}
              \/ /\ InFlightAfter(i)
                 /\ After(i).m_Instruction
                      = m_lstInstructionPipeline[i].m_Instruction
                 /\ After(i).m_psState \in {st, NextStage(st)}
                 /\ st = PS_COMPLETED => After(i).m_psState = PS_COMPLETED
        /\ Pushed = 1 =>
              m_lstInstructionPipeline'[1].m_psState \in {PS_INVALID, PS_IF}]_vars

\* instructions have completed, one was held by a stall on the way, and
\* others are in Decode and WriteBack
C28_Witness ==
    /\ m_dwCompletedCtr >= 2
    /\ m_dwStallCtr >= 1
    /\ ~bStalled
    /\ \E i, j \in 1..Len(m_lstInstructionPipeline) :
          /\ ~IsNOOP(m_lstInstructionPipeline[i])
          /\ m_lstInstructionPipeline[i].m_psState = PS_ID
          /\ ~IsNOOP(m_lstInstructionPipeline[j])
          /\ m_lstInstructionPipeline[j].m_psState = PS_WB

\* the position of identity id in the order of insertion
InsertedIndex(id) ==
    CHOOSE i \in 1..NumInserted : inserted[i].m_Instruction = id

\* the indices of the in-flight list that hold instructions, not bubbles
InstructionsInFlight ==
    {i \in 1..Len(m_lstInstructionPipeline) :
        ~IsNOOP(m_lstInstructionPipeline[i])}

(* C29: a call takes at most one record from the pending queue, the one    *)
(* at its head, and puts it at the front of the in-flight list; a call     *)
(* that finds a record pending and takes none pushes nothing, and a call   *)
(* that pushes with the queue empty pushes a bubble.  So the queue is      *)
(* always the tail end of the insertion order and the instructions in      *)
(* flight are in insertion order from the back to the front.               *)
C29_AdmissionOrder ==
    /\ [][IsCall =>
            /\ m_queInstructions' # m_queInstructions =>
                  /\ m_queInstructions' = Tail(m_queInstructions)
                  /\ m_lstInstructionPipeline'[1].m_Instruction
                        = Head(m_queInstructions).m_Instruction
                  /\ \A i \in 1..Len(m_lstInstructionPipeline) :
                        RetiredAt(i) \/ After(i).m_Instruction
                                          = m_lstInstructionPipeline[i].m_Instruction
            /\ (m_queInstructions # <<>>
                /\ m_queInstructions' = m_queInstructions) =>
                  Len(m_lstInstructionPipeline')
                     <= Len(m_lstInstructionPipeline)
                          + (IF StallInjected THEN 1 ELSE 0)
            /\ (m_queInstructions = <<>> /\ Pushed = 1) =>
                  IsNOOP(m_lstInstructionPipeline'[1])]_vars
    /\ [](/\ m_queInstructions
                = SubSeq(inserted, NumInserted - Len(m_queInstructions) + 1,
                         NumInserted)
          /\ \A i, j \in InstructionsInFlight :
                i < j => InsertedIndex(m_lstInstructionPipeline[i].m_Instruction)
                          > InsertedIndex(m_lstInstructionPipeline[j].m_Instruction))

\* the queue has been drained in order: a bubble was admitted behind 'c',
\* which is behind 'b'
C29_Witness ==
    /\ m_queInstructions = <<>>
    /\ NumInserted = 3
    /\ Len(m_lstInstructionPipeline) >= 3
    /\ IsNOOP(m_lstInstructionPipeline[1])
    /\ m_lstInstructionPipeline[2].m_Instruction = CHAR_a + 2
    /\ m_lstInstructionPipeline[3].m_Instruction = CHAR_a + 1

(* C30: a call that starts with more than m_dwMaxPipelineDepth (4) records *)
(* in flight admits nothing: the pending queue is unchanged and the front  *)
(* record is the one that was there.  A call that starts with at most 4    *)
(* pushes exactly one record to the front: the head of the pending queue,  *)
(* or a bubble when the queue is empty.  Apart from that the list changes  *)
(* only by a stall bubble and by the retirement of its back record.        *)
C30_AdmissionGate ==
    [][IsCall =>
        /\ Len(m_lstInstructionPipeline) > CONCURRENT_INSTRUCTION_LIMIT =>
              /\ m_queInstructions' = m_queInstructions
              /\ m_lstInstructionPipeline'[1].m_Instruction
                    = m_lstInstructionPipeline[1].m_Instruction
              /\ Len(m_lstInstructionPipeline')
                    <= Len(m_lstInstructionPipeline)
                         + (IF StallInjected THEN 1 ELSE 0)
        /\ Len(m_lstInstructionPipeline) <= CONCURRENT_INSTRUCTION_LIMIT =>
              /\ m_lstInstructionPipeline'[1].m_Instruction
                    = IF m_queInstructions # <<>>
                      THEN Head(m_queInstructions).m_Instruction
                      ELSE NOOP_INSTRUCTION
              /\ m_queInstructions'
                    = IF m_queInstructions # <<>>
                      THEN Tail(m_queInstructions) ELSE m_queInstructions
              /\ Len(m_lstInstructionPipeline')
                    >= Len(m_lstInstructionPipeline)
                         + (IF StallInjected THEN 1 ELSE 0)
        /\ \A i \in 1..Len(m_lstInstructionPipeline) :
              RetiredAt(i) \/ After(i).m_Instruction
                                = m_lstInstructionPipeline[i].m_Instruction]_vars

\* more calls were made than records admitted while a record is still
\* pending: some call found the list too long and admitted nothing
C30_Witness ==
    /\ m_queInstructions # <<>>
    /\ m_dwCycle > NumInserted - Len(m_queInstructions)
    /\ Len(m_lstInstructionPipeline) > CONCURRENT_INSTRUCTION_LIMIT

(***************************************************************************)
(* Claims about the aggregates the program reports and the records it      *)
(* feeds.                                                                  *)
(***************************************************************************)
\* the driver has fed the simulator
Fed == pc \in {"fed", "loop", "done"}

(* C21 as claimed: for every graph built by AddNode / AddEdge with node    *)
(* count N >= 1 the reported actual cycles are at most 2N + 2, that is     *)
(* stalls required <= N - 1, and the simulator run on it never counts more *)
(* than N - 1 stalls.                                                      *)
C21_WorstCase ==
    GetNumNodes >= 1 =>
       /\ CalculatePartialOverlappedExecutionCycles <= 2 * GetNumNodes + 2
       /\ CalculateNumberOfStallsRequired <= GetNumNodes - 1
       /\ Fed => m_dwStallCtr <= GetNumNodes - 1

\* the node of inserted record i holds an edge to the letter of identity id
EdgeToLetter(i, id) ==
    \E e \in m_vNodes[GetNodeIndex(inserted[i].m_Instruction)].m_setEdges :
        SameLetter(e.m_idDestNode, id)

(* C22 as claimed: a record the driver feeds is flagged data dependent if  *)
(* and only if the graph holds an edge from its instruction to the         *)
(* instruction fed immediately before it; the first one fed is never       *)
(* flagged.                                                                *)
C22_FlagIsPredecessorEdge ==
    Fed =>
       \A i \in 1..NumInserted :
           inserted[i].m_bDataDependent
           <=> (i > 1 /\ EdgeToLetter(i, inserted[i - 1].m_Instruction))

\* the number of valid nodes x holding an edge to the identity x - 1
StallsRequired ==
    Cardinality({i \in ValidSlots :
                    \E e \in m_vNodes[i].m_setEdges :
                        e.m_idDestNode = m_vNodes[i].m_ID - 1})

(* C23: in every state the reported aggregates are node count * 4          *)
(* (sequential), node count + 3 (ideal) and node count + stalls required   *)
(* + 3 (actual), stalls required being the number of valid nodes x with an *)
(* edge to x - 1; a step that leaves the graph alone leaves them alone,    *)
(* whatever the simulator's counters do.                                   *)
C23_Aggregates ==
    /\ [](/\ CalculateSequentialExecutionCycles = GetNumNodes * 4
          /\ CalculateCompleteOverlappedExecutionCycles = GetNumNodes + 3
          /\ CalculateNumberOfStallsRequired = StallsRequired
          /\ CalculatePartialOverlappedExecutionCycles
                = GetNumNodes + StallsRequired + 3)
    /\ [][dagVars' = dagVars =>
            /\ CalculateSequentialExecutionCycles'
                  = CalculateSequentialExecutionCycles
            /\ CalculateCompleteOverlappedExecutionCycles'
                  = CalculateCompleteOverlappedExecutionCycles
            /\ CalculatePartialOverlappedExecutionCycles'
                  = CalculatePartialOverlappedExecutionCycles]_vars

\* the simulation is under way on a graph of four or more nodes that needs
\* two stalls, and has counted one of them
C23_Witness ==
    /\ pc = "loop"
    /\ GetNumNodes >= 4
    /\ StallsRequired = 2
    /\ m_dwStallCtr = 1
    /\ m_dwCycle >= 3

(***************************************************************************)
(* Retirement, list size and stall spacing of the bare simulator.          *)
(***************************************************************************)
\* the records the call added to the list: what it pushed and the bubble
\* of a stall
AddedByCall == Pushed + (IF StallInjected THEN 1 ELSE 0)

(* C31: retirement happens only at the back.  A call removes at most one   *)
(* record from the in-flight list; the record it removes is the back one   *)
(* and has reached Completed; a record that is not at the back stays in    *)
(* the list, also when the call leaves it in Completed.                    *)
C31_RetireAtBack ==
    [][IsCall =>
        /\ Len(m_lstInstructionPipeline')
              \in {Len(m_lstInstructionPipeline) + AddedByCall,
                   Len(m_lstInstructionPipeline) + AddedByCall - 1}
        /\ \A i \in 1..Len(m_lstInstructionPipeline) :
              /\ i < Len(m_lstInstructionPipeline) =>
                    /\ InFlightAfter(i)
                    /\ After(i).m_Instruction
                         = m_lstInstructionPipeline[i].m_Instruction
              /\ RetiredAt(i) =>
                    /\ i = Len(m_lstInstructionPipeline)
                    /\ NextStage(m_lstInstructionPipeline[i].m_psState)
                         = PS_COMPLETED
              /\ (InFlightAfter(i) /\ i = Len(m_lstInstructionPipeline)) =>
                    After(i).m_psState # PS_COMPLETED]_vars

\* two records were in WriteBack together: the back one was retired and
\* the other, an instruction, stays in the list in Completed
C31_Witness ==
    /\ m_dwCompletedCtr >= 2
    /\ Len(m_lstInstructionPipeline) >= 2
    /\ LET back == m_lstInstructionPipeline[Len(m_lstInstructionPipeline)]
       IN  back.m_psState = PS_COMPLETED /\ ~IsNOOP(back)

\* the inserted record of identity id has been admitted and has reached
\* Completed: it is retired, or in the list in Completed
HasCompleted(id) ==
    /\ \A i \in 1..Len(m_queInstructions) :
          m_queInstructions[i].m_Instruction # id
    /\ \A j \in Where(m_lstInstructionPipeline, id) :
          m_lstInstructionPipeline[j].m_psState = PS_COMPLETED

(* C32: execution is in order.  The instructions in the in-flight list     *)
(* are, from the back to the front, in the order they were inserted, and   *)
(* an older one is never in an earlier stage than a newer one.  The        *)
(* instructions reach Completed in insertion order: those that have        *)
(* reached it are always the first ones inserted, as many as the           *)
(* completion counter says, so no call marks a later instruction Completed *)
(* before an earlier one.                                                  *)
C32_InOrder ==
    /\ [](/\ \A i, j \in InstructionsInFlight :
                i < j =>
                   /\ InsertedIndex(m_lstInstructionPipeline[i].m_Instruction)
                        > InsertedIndex(m_lstInstructionPipeline[j].m_Instruction)
                   /\ m_lstInstructionPipeline[i].m_psState
                        <= m_lstInstructionPipeline[j].m_psState
          /\ \A i \in 1..NumInserted :
                HasCompleted(inserted[i].m_Instruction)
                   <=> i <= m_dwCompletedCtr)
    /\ [][IsCall =>
            \A i, j \in 1..NumInserted :
               (i < j /\ HasCompleted(inserted[j].m_Instruction)')
                  => HasCompleted(inserted[i].m_Instruction)']_vars

\* 'a' and 'b' have completed, 'c' was held by a stall and is in flight
\* ahead of 'd'
C32_Witness ==
    /\ NumInserted >= 4
    /\ m_dwCompletedCtr = 2
    /\ m_dwStallCtr >= 1
    /\ \E i, j \in InstructionsInFlight :
          /\ i < j
          /\ m_lstInstructionPipeline[i].m_Instruction = CHAR_a + 3
          /\ m_lstInstructionPipeline[j].m_Instruction = CHAR_a + 2
          /\ m_lstInstructionPipeline[j].m_psState > PS_ID

(* C38: the retirement check never reads an empty list.  In every call,    *)
(* also the first one of a fresh simulator with nothing inserted, the      *)
(* list holds at least one record when its back is inspected (the list     *)
(* after the admission block, which the stage loop only grows), and the    *)
(* list is not empty after any call.                                       *)
C38_BackExists ==
    /\ [][IsCall =>
            /\ Len(Admission(m_lstInstructionPipeline,
                             m_queInstructions).lst) >= 1
            /\ Len(m_lstInstructionPipeline) + AddedByCall >= 1
            /\ Len(m_lstInstructionPipeline') >= 1]_vars
    /\ [](m_dwCycle > 0 => Len(m_lstInstructionPipeline) >= 1)

\* a simulator nothing was ever inserted into has been stepped until its
\* first bubble was retired: the list still holds the bubbles behind it
C38_Witness ==
    /\ NumInserted = 0
    /\ m_dwCycle > m_dwMaxPipelineDepth + 1
    /\ Len(m_lstInstructionPipeline) = m_dwMaxPipelineDepth
    /\ \A i \in 1..Len(m_lstInstructionPipeline) :
          IsNOOP(m_lstInstructionPipeline[i])

(* C39: the in-flight list is bounded.  After every call it holds at most  *)
(* m_dwMaxPipelineDepth + 1 = 5 records, bubbles included; inside a call   *)
(* it holds at most 6, after the admission and the bubble of a stall and   *)
(* before the retirement check.                                            *)
C39_BoundedList ==
    /\ [](Len(m_lstInstructionPipeline) <= m_dwMaxPipelineDepth + 1)
    /\ [][IsCall =>
            Len(m_lstInstructionPipeline) + AddedByCall
               <= m_dwMaxPipelineDepth + 2]_vars

\* a call that started with 5 records injected a stall, which made 6, and
\* retired the back one: nothing was pushed, so the front is not
\* Uninitialized
C39_Witness ==
    /\ bStalled
    /\ Len(m_lstInstructionPipeline) = m_dwMaxPipelineDepth + 1
    /\ m_lstInstructionPipeline[1].m_psState # PS_INVALID

(***************************************************************************)
(* InsertInstruction at any time.                                          *)
(***************************************************************************)
\* the step is a call of InsertInstruction
IsInsert == inserted' # inserted

(* C33: InsertInstruction succeeds in every state, before any call of      *)
(* ProcessNextCycle, between calls and after a call has returned false.    *)
(* It appends the record at the tail of the pending queue, returns the new *)
(* length of the queue, which is the old length plus 1, and leaves the     *)
(* cycle, stall and completion counters and the in-flight list unchanged.  *)
C33_InsertAppends ==
    /\ [][IsInsert =>
            /\ inserted' = Append(inserted, inserted'[Len(inserted')])
            /\ m_queInstructions'
                  = Append(m_queInstructions, inserted'[Len(inserted')])
            /\ sizeReturn' = Len(m_queInstructions) + 1
            /\ sizeReturn' = Len(m_queInstructions')
            /\ UNCHANGED <<m_dwCycle, m_dwStallCtr, m_dwCompletedCtr,
                           m_lstInstructionPipeline>>]_vars
    /\ [](Len(inserted) < MaxLate => ENABLED InsertAnyTime)

\* 'c' was inserted behind 'b', which was still pending, after 'a' had
\* completed and a call had returned false: the call returned 2
C33_Witness ==
    /\ firstFalse # 0
    /\ m_dwCompletedCtr = 1
    /\ NumInserted = 3
    /\ Len(m_queInstructions) = 2
    /\ m_queInstructions[2].m_Instruction = CHAR_a + 2
    /\ sizeReturn = 2

(* C34: polling after the end.  Once a call of ProcessNextCycle has        *)
(* returned false and nothing is inserted after it, every further call     *)
(* increments the cycle counter by 1, admits only a bubble and advances    *)
(* only bubbles, returns false again, and leaves the stall and completion  *)
(* counters unchanged.                                                     *)
C34_PollingAfterEnd ==
    [][(IsCall /\ ReturnedFalse) =>
        /\ m_dwCycle' = m_dwCycle + 1
        /\ ~bReturn'
        /\ m_dwStallCtr' = m_dwStallCtr
        /\ m_dwCompletedCtr' = m_dwCompletedCtr
        /\ m_queInstructions' = m_queInstructions
        /\ Pushed = 1 => IsNOOP(m_lstInstructionPipeline'[1])
        /\ \A i \in 1..Len(m_lstInstructionPipeline) :
              (InFlightAfter(i) /\ After(i) # m_lstInstructionPipeline[i])
                 => IsNOOP(m_lstInstructionPipeline[i])]_vars

(* C40: stalls are never back to back.  With the records inserted before   *)
(* stepping starts, no two consecutive calls of ProcessNextCycle both      *)
(* inject a stall: bStalled tells that the call before did.                *)
C40_StallsApart ==
    [][(IsCall /\ bStalled) => ~StallInjected]_vars

(***************************************************************************)
(* What ExecutePipelineSimulation renders.                                 *)
(***************************************************************************)
(* C35 as claimed: the in-flight state produced by the first call of       *)
(* ProcessNextCycle is never rendered: no step appends a snapshot while    *)
(* the simulator is in the state its first call left.                      *)
C35_Original ==
    [][(pc = "loop" /\ m_dwCycle = 1) => tcout' = tcout]_vars

(* C35 amended: the driver renders before each further call, so the state  *)
(* produced by the first call is the first snapshot rendered whenever that *)
(* call returned true (with an instruction fed: the first one, in Fetch),  *)
(* and every state produced by a call that returned true is rendered once, *)
(* in order: in the loop the snapshots number one less than the calls.     *)
(* The state produced by the call that returned false is never rendered.   *)
C35_RenderOrder ==
    /\ [][(pc = "loop" /\ pc' = "loop") =>
            /\ bReturn
            /\ tcout' = Append(tcout, Snapshot(m_lstInstructionPipeline))
            /\ IsCall]_vars
    /\ [][(pc = "loop" /\ ~bReturn) => tcout' = tcout]_vars
    /\ [][pc # "loop" => tcout' = tcout]_vars
    /\ [](pc \in {"loop", "done"} =>
            /\ Len(tcout) = m_dwCycle - 1
            /\ (NumInserted >= 1 /\ m_dwCycle >= 2) =>
                  tcout[1] = <<inserted[1].m_Instruction>>)

\* the run is over: the first snapshot shows 'a' alone and the second 'b'
\* behind it, the states the first and the second call produced
C35_Witness ==
    /\ DriverFinished
    /\ NumInserted >= 2
    /\ Len(tcout) >= 2
    /\ tcout[1] = <<CHAR_a>>
    /\ tcout[2] = <<CHAR_a + 1, CHAR_a>>
    /\ Len(tcout) = m_dwCycle - 1

(* C37: the length of the trace matches the reported total.  When every    *)
(* dependency stored names an added node and at least one node was added,  *)
(* the calls of ProcessNextCycle that returned true before the first one   *)
(* that returned false, which are the snapshots rendered, number           *)
(* N + stalls required + 3, the total the program reports.                 *)
C37_TraceLength ==
    (DriverFinished /\ WellFormed /\ GetNumNodes >= 1) =>
        /\ firstFalse = m_dwCycle
        /\ firstFalse - 1 = CalculatePartialOverlappedExecutionCycles
        /\ Len(tcout) = CalculatePartialOverlappedExecutionCycles
        /\ Len(tcout) = GetNumNodes + CalculateNumberOfStallsRequired
                          + (BASE_CYCLES_PER_INSTUCTION - 1)

\* a finished run over five nodes, every dependency naming an added node,
\* two of them on the immediate predecessor: 10 snapshots
C37_Witness ==
    /\ DriverFinished
    /\ WellFormed
    /\ GetNumNodes = 5
    /\ CalculateNumberOfStallsRequired = 2
    /\ Len(tcout) = 10
    /\ m_dwStallCtr = 2

(***************************************************************************)
(* Edge weights.                                                           *)
(***************************************************************************)
\* a node with the weights left out: the identity stored and the
\* destinations of its edges
UnweightedNode(node) ==
    [m_ID |-> node.m_ID,
     dests |-> {e.m_idDestNode : e \in node.m_setEdges}]

\* the <<from, to>> of the AddEdge calls that returned true, weights left out
EdgePairs == {<<e[1], e[2]>> : e \in edgeLog}

\* the records the driver would feed, worked out from the calls that
\* returned true with the weights left out
RECURSIVE FeedOfCalls(_)
FeedOfCalls(i) ==
    IF i = m_nMaxNodes THEN <<>>
    ELSE (IF \E x \in nodeLog : GetNodeIndex(x) = i
          THEN LET x == CHOOSE x \in nodeLog : GetNodeIndex(x) = i IN
               <<CInstructionData(x, PS_INVALID,
                    \E p \in EdgePairs :
                        GetNodeIndex(p[1]) = i /\ p[2] = x - 1)>>
          ELSE <<>>) \o FeedOfCalls(i + 1)

(* C36: the weight of an edge does not affect behaviour.  What an AddEdge  *)
(* call returns depends only on the calls made before it with the weights  *)
(* left out, and from the state it is made in the call returns the same    *)
(* and leaves the same graph but for the weight whatever weight it is      *)
(* given.  The graph but for the weights, the answers of the edge query    *)
(* and the records fed to the simulator (identity and data-dependence      *)
(* flag, all the simulator is given) are those of the calls that returned  *)
(* true with the weights left out: two call sequences that differ in the   *)
(* weights only give the same results, answers, flags and simulator run.   *)
C36_WeightBlind ==
    /\ [][(dagCall' # dagCall /\ dagCall'.op = "AddEdge") =>
            /\ dagCall'.bReturn <=>
                  /\ dagCall'.idNode \in Alphabet
                  /\ dagCall'.idToNode \in Alphabet
                  /\ Added(dagCall'.idNode)
                  /\ \A p \in EdgePairs :
                        ~(SameLetter(p[1], dagCall'.idNode)
                          /\ p[2] = dagCall'.idToNode)
            /\ \A iWeight \in ClientWeights :
                  LET r == AddEdgeResult(dagCall'.idNode, dagCall'.idToNode,
                                         iWeight)
                      n == GetNodeIndex(dagCall'.idNode)
                  IN  /\ r.bReturn = dagCall'.bReturn
                      /\ IF r.bReturn
                         THEN /\ r.m_vNodes
                                   = [m_vNodes' EXCEPT ![n] = r.m_vNodes[n]]
                              /\ UnweightedNode(r.m_vNodes[n])
                                   = UnweightedNode(m_vNodes'[n])
                         ELSE r.m_vNodes = m_vNodes']_vars
    /\ [](/\ \A i \in DOMAIN m_vNodes :
                UnweightedNode(m_vNodes[i]).dests
                   = {p[2] : p \in {q \in EdgePairs : GetNodeIndex(q[1]) = i}}
          /\ \A x \in QueryIds, y \in QueryIds :
                HasEdgeFrom(x, y) <=>
                   \E p \in EdgePairs : SameLetter(p[1], x) /\ p[2] = y
          /\ FeedFrom(0) = FeedOfCalls(0))

\* node 'B' has the edge to 'A' with weight 1, AddEdge('B', 'A', 2) has
\* just returned false, and 'B' is fed with its flag set
C36_Witness ==
    /\ <<CHAR_A + 1, CHAR_A, 1>> \in edgeLog
    /\ dagCall.op = "AddEdge" /\ ~dagCall.bReturn
    /\ dagCall.idNode = CHAR_A + 1 /\ dagCall.idToNode = CHAR_A
    /\ dagCall.iWeight = 2
    /\ \E k \in 1..Len(FeedFrom(0)) :
          /\ FeedFrom(0)[k].m_Instruction = CHAR_A + 1
          /\ FeedFrom(0)[k].m_bDataDependent

=============================================================================
